---- MODULE Spec2Model ----
(***************************************************************************)
(* Oscilloscope CSV viewer: the loader (data_handler.py, class             *)
(* DataHandler) and the shell that drives it (gui.py, OsciloscopioGUI).    *)
(*                                                                         *)
(* A file is a sequence of lines, a line a sequence of comma-separated     *)
(* fields (text).  A table (DataFrame) is a record of column names, column *)
(* dtypes and rows of cells; a cell is a number or the missing marker NaN. *)
(* pandas' read_csv / to_numeric / to_csv are modelled by what they do on  *)
(* such files: rectangular rows, names that stay distinct after trimming.  *)
(***************************************************************************)
EXTENDS Integers, Sequences, FiniteSets, TLC

VARIABLES
    fs,              \* the file system: path -> file
    df,              \* DataHandler.df
    archivo_actual,  \* DataHandler.archivo_actual
    gui_df,          \* OsciloscopioGUI.df
    canal_vars,      \* OsciloscopioGUI.canal_vars: <<[col, var]>>
    btn_graficar,    \* state of the refresh button
    plot,            \* what the axes show: the channels drawn last
    info_label,      \* text of the file-information label
    last,            \* observation: the last operation and its outcome
    okPath,          \* history: path of the most recent load that succeeded
    exported,        \* history: the table and columns of the last export written
    nExport          \* history: number of exports that wrote a file

vars == <<fs, df, archivo_actual, gui_df, canal_vars, btn_graficar, plot,
          info_label, last, okPath, exported, nExport>>

(***************************************************************************)
(* Bounds                                                                  *)
(***************************************************************************)
MaxLines == 4     \* SpecDetect: longest probed file, in lines
MaxRows == 2      \* SpecTables: most data rows of a generated file
MaxVals == 4      \* SpecStats: most rows of a generated channel
MaxReq == 2       \* longest requested column list (besides "all columns")
MaxExports == 1   \* exports that write a file, per behaviour

ColCounts == {1, 2}      \* column counts of the generated files
NumRange == 0 .. 12         \* the numbers that occur in files

(***************************************************************************)
(* Values                                                                  *)
(***************************************************************************)
None == [isNone |-> TRUE]                 \* Python's None
NaN == [nan |-> TRUE, v |-> 0]            \* the missing marker
Num(n) == [nan |-> FALSE, v |-> n]

Max(a, b) == IF a >= b THEN a ELSE b

Range(s) == {s[i] : i \in 1 .. Len(s)}

\* Text of a number: "7" in an int64 column, "7.0" in a float64 column.
IntText(n) == ToString(n)
FloatText(n) == ToString(n) \o ".0"
IntTexts == {IntText(n) : n \in NumRange}
NumTexts == IntTexts \cup {FloatText(n) : n \in NumRange}
NumVal == [s \in NumTexts |->
             CHOOSE n \in NumRange : s = IntText(n) \/ s = FloatText(n)]

\* float(text) of detectar_lineas_encabezado succeeds
IsFloat(s) == s \in NumTexts

\* str.strip() on the column names that occur
Strip(s) ==
    CASE s = " ch1" -> "ch1"
      [] s = "ch2 " -> "ch2"
      [] OTHER -> s

(***************************************************************************)
(* Files                                                                   *)
(***************************************************************************)
Absent == [exists |-> FALSE, lines |-> <<>>]
File(ls) == [exists |-> TRUE, lines |-> ls]

\* A line that is empty after strip(); <<"">> is the line to_csv writes for a
\* missing cell of a one-column frame, which the python engine drops as empty.
IsBlank(l) == l = <<>> \/ l = <<"">>

(***************************************************************************)
(* detectar_lineas_encabezado: the scan of lines i = 0, 1, ...             *)
(***************************************************************************)
\* slips of the return value: no clamp at 0; the index itself
DetectReturnNoClamp(i) == i - 1
DetectReturnIndex(i) == i

\* return max(0, i - 1)
DetectReturn(i) == Max(0, i - 1)

RECURSIVE DetectFrom(_, _)
DetectFrom(lines, i) ==
    IF i >= Len(lines) THEN 1
    ELSE LET linea == lines[i + 1] IN
         IF linea = <<>> THEN DetectFrom(lines, i + 1)
         ELSE IF IsFloat(Strip(linea[1])) THEN DetectReturn(i)
         ELSE DetectFrom(lines, i + 1)

detectar_lineas_encabezado(lines) == DetectFrom(lines, 0)

(***************************************************************************)
(* pd.read_csv(skiprows, header=0, delimiter=',', engine='python')        *)
(***************************************************************************)
\* pandas' name of header field i (1-based here): empty -> "Unnamed: i-1",
\* a repeated name -> name.k
HeaderName(header, i) ==
    LET raw == header[i]
        k == Cardinality({j \in 1 .. i - 1 : header[j] = raw})
    IN IF raw = "" THEN "Unnamed: " \o ToString(i - 1)
       ELSE IF k > 0 THEN raw \o "." \o ToString(k)
       ELSE raw

\* the raw frame: names and rows of text fields, short rows padded
RawFrame(header, body) ==
    [columns |-> [i \in 1 .. Len(header) |-> HeaderName(header, i)],
     rows |-> [r \in 1 .. Len(body) |->
                 [c \in 1 .. Len(header) |->
                    IF c <= Len(body[r]) THEN body[r][c] ELSE ""]]]

read_csv(lines, skiprows) ==
    LET rest == SubSeq(lines, skiprows + 1, Len(lines))
        kept == SelectSeq(rest, LAMBDA l : ~IsBlank(l))
    IN IF kept = <<>>
       THEN [ok |-> FALSE, msg |-> "No columns to parse from file", frame |-> None]
       ELSE [ok |-> TRUE, msg |-> "", frame |-> RawFrame(Head(kept), Tail(kept))]

(***************************************************************************)
(* convertir_a_numerico                                                    *)
(***************************************************************************)
\* pd.to_numeric(errors='coerce') on one field
ToNumeric(s) == IF s \in NumTexts THEN Num(NumVal[s]) ELSE NaN

\* dtype of the converted column: int64 when every field is an integer text
ColDtype(frame, c) ==
    IF Len(frame.rows) > 0
       /\ \A r \in 1 .. Len(frame.rows) :
             frame.rows[r][c] \in IntTexts
    THEN "int64" ELSE "float64"

convertir_a_numerico(frame) ==
    [columns |-> frame.columns,
     dtypes |-> [c \in 1 .. Len(frame.columns) |-> ColDtype(frame, c)],
     rows |-> [r \in 1 .. Len(frame.rows) |->
                 [c \in 1 .. Len(frame.columns) |-> ToNumeric(frame.rows[r][c])]]]

\* self.df.columns = self.df.columns.str.strip()
StripColumns(frame) ==
    [frame EXCEPT !.columns = [i \in 1 .. Len(frame.columns) |-> Strip(frame.columns[i])]]

(***************************************************************************)
(* validar_datos                                                           *)
(***************************************************************************)
NumCols(t) == Len(t.columns)
NumRows(t) == Len(t.rows)
NaNCount(t) ==
    Cardinality({rc \in (1 .. NumRows(t)) \X (1 .. NumCols(t)) : t.rows[rc[1]][rc[2]].nan})

MinCols == 2
NaNLimit == 50

\* slip of the threshold: >= instead of >
TooManyNaNAtLimit(t) == NaNCount(t) * 100 >= NaNLimit * (NumRows(t) * NumCols(t))

\* porcentaje_nan > 50, with porcentaje_nan = count / (rows * cols) * 100
TooManyNaN(t) == NaNCount(t) * 100 > NaNLimit * (NumRows(t) * NumCols(t))

ErrColumnas == "El archivo debe tener al menos 2 columnas (tiempo y 1 canal)"
ErrSinDatos == "El archivo no contiene datos"
\* the message also carries the percentage, "({porcentaje_nan:.1f}%)"
ErrNaN == "El archivo tiene demasiados valores invalidos"

\* "" when the table is valid, else the message of the exception raised
validar_datos(t) ==
    IF t = None THEN "No hay datos cargados"
    ELSE IF NumCols(t) < MinCols THEN ErrColumnas
    ELSE IF NumRows(t) = 0 THEN ErrSinDatos
    ELSE IF TooManyNaN(t) THEN ErrNaN
    ELSE ""

(***************************************************************************)
(* cargar_csv                                                              *)
(***************************************************************************)
NonePath == "<None>"       \* archivo_actual = None
LoadPrefix == "Error al cargar el archivo: "
NoErr == [type |-> "", prefix |-> "", msg |-> ""]
\* raise Exception(f"Error al cargar el archivo: {str(e)}")
Wrapped(m) == [type |-> "Exception", prefix |-> LoadPrefix, msg |-> m]
\* what open() raises on a path that cannot be opened
OpenError == [type |-> "FileNotFoundError", prefix |-> "",
              msg |-> "No such file or directory"]

\* The outcome of cargar_csv(path): the loader's fields after the call, the
\* exception that leaves it (NoErr when it returns) and the table returned.
\* The steps are operators of their own so that each is computed once.

\* lines 57-63: validar_datos has run on self.df = r.frame with outcome v
LoadValidated(path, skiprows, r, v) ==
    [df |-> r.frame, archivo |-> path,
     err |-> IF v = "" THEN NoErr ELSE Wrapped(v),
     ret |-> IF v = "" THEN r.frame ELSE None,
     skiprows |-> skiprows, raw |-> r.raw, parsed |-> r.frame]

\* lines 43-55: self.df is assigned the parsed table, before it is validated
LoadParsed(path, skiprows, r) ==
    IF ~r.ok
    THEN [df |-> df, archivo |-> path, err |-> Wrapped(r.msg),
          ret |-> None, skiprows |-> skiprows, raw |-> None, parsed |-> None]
    ELSE LoadValidated(path, skiprows, r, validar_datos(r.frame))

\* lines 52-55: the frame read, with its names trimmed and its cells converted
Converted(r) ==
    [ok |-> r.ok, msg |-> r.msg, raw |-> r.frame,
     frame |-> IF r.ok THEN convertir_a_numerico(StripColumns(r.frame)) ELSE None]

\* lines 39-55: inside the try block
LoadTry(path, skiprows) ==
    LoadParsed(path, skiprows, Converted(read_csv(fs[path].lines, skiprows)))

\* lines 34-37: archivo_actual is assigned first; detectar_lineas_encabezado
\* is called before the try block, so what open() raises leaves cargar_csv
\* as it is
cargar_csv(path) ==
    IF ~fs[path].exists
    THEN [df |-> df, archivo |-> path, err |-> OpenError,
          ret |-> None, skiprows |-> -1, raw |-> None, parsed |-> None]
    ELSE LoadTry(path, detectar_lineas_encabezado(fs[path].lines))

(***************************************************************************)
(* exportar_datos_filtrados                                                *)
(***************************************************************************)
StateError == [type |-> "Exception", prefix |-> "", msg |-> "No hay datos para exportar"]

\* slip: the first column is appended instead of put in front
ExportColumnsAppend(t, columnas) ==
    IF t.columns[1] \notin Range(columnas) THEN columnas \o <<t.columns[1]>>
    ELSE columnas

\* the columns written: the first column is put in front when not requested
ExportColumns(t, columnas) ==
    IF t.columns[1] \notin Range(columnas) THEN <<t.columns[1]>> \o columnas
    ELSE columnas

ColIndex(t, name) == CHOOSE i \in 1 .. NumCols(t) : t.columns[i] = name

\* self.df[columnas]
SelectColumns(t, columnas) ==
    [columns |-> columnas,
     dtypes |-> [k \in 1 .. Len(columnas) |-> t.dtypes[ColIndex(t, columnas[k])]],
     rows |-> [r \in 1 .. NumRows(t) |->
                 [k \in 1 .. Len(columnas) |-> t.rows[r][ColIndex(t, columnas[k])]]]]

FmtCell(cell, dtype) ==
    IF cell.nan THEN ""
    ELSE IF dtype = "int64" THEN IntText(cell.v) ELSE FloatText(cell.v)

\* DataFrame.to_csv(index=False): the header line, then one line per row
to_csv(t) ==
    <<t.columns>> \o
    [r \in 1 .. NumRows(t) |->
       [c \in 1 .. NumCols(t) |-> FmtCell(t.rows[r][c], t.dtypes[c])]]

\* The outcome of exportar_datos_filtrados(columnas, ruta): the exception that
\* leaves it, whether the file was written and with what, and the caller's
\* list after the call (the code rebinds its parameter to a new list).
exportar_datos_filtrados(columnas) ==
    IF df = None
    THEN [err |-> StateError, written |-> FALSE, lines |-> <<>>, caller |-> columnas]
    ELSE [err |-> NoErr, written |-> TRUE,
          lines |-> to_csv(SelectColumns(df, ExportColumns(df, columnas))),
          caller |-> columnas]

(***************************************************************************)
(* obtener_estadisticas                                                    *)
(* A statistic is a rational num/den (den > 0) or NaN; the standard        *)
(* deviation, an irrational in general, is left out of the record.         *)
(***************************************************************************)
RNaN == [nan |-> TRUE, num |-> 0, den |-> 1]
Rat(n, d) == [nan |-> FALSE, num |-> n, den |-> d]

\* self.df[columna].dropna(): the non-missing values, in row order
DropNa(t, c) ==
    LET col == [r \in 1 .. NumRows(t) |-> t.rows[r][c]]
        kept == SelectSeq(col, LAMBDA x : ~x.nan)
    IN [i \in 1 .. Len(kept) |-> kept[i].v]

RECURSIVE SeqMin(_)
SeqMin(s) ==
    IF Len(s) = 1 THEN s[1]
    ELSE LET m == SeqMin(Tail(s)) IN IF s[1] <= m THEN s[1] ELSE m

RECURSIVE SeqMax(_)
SeqMax(s) ==
    IF Len(s) = 1 THEN s[1]
    ELSE LET m == SeqMax(Tail(s)) IN IF s[1] >= m THEN s[1] ELSE m

RECURSIVE SeqSum(_)
SeqSum(s) == IF s = <<>> THEN 0 ELSE s[1] + SeqSum(Tail(s))

RECURSIVE Insert(_, _)
Insert(x, s) ==
    IF s = <<>> THEN <<x>>
    ELSE IF x <= s[1] THEN <<x>> \o s
    ELSE <<s[1]>> \o Insert(x, Tail(s))

RECURSIVE Sorted(_)
Sorted(s) == IF s = <<>> THEN <<>> ELSE Insert(s[1], Sorted(Tail(s)))

StatMin(datos) == IF datos = <<>> THEN RNaN ELSE Rat(SeqMin(datos), 1)
StatMax(datos) == IF datos = <<>> THEN RNaN ELSE Rat(SeqMax(datos), 1)
StatMean(datos) == IF datos = <<>> THEN RNaN ELSE Rat(SeqSum(datos), Len(datos))
\* slip: the middle of the values as they stand, unsorted
StatMedianUnsorted(datos) ==
    LET n == Len(datos) IN
    IF n = 0 THEN RNaN
    ELSE IF n % 2 = 1 THEN Rat(datos[(n + 1) \div 2], 1)
    ELSE Rat(datos[n \div 2] + datos[n \div 2 + 1], 2)

\* the middle value, or the mean of the two middle values
StatMedian(datos) ==
    LET n == Len(datos)
        o == Sorted(datos)
    IN IF n = 0 THEN RNaN
       ELSE IF n % 2 = 1 THEN Rat(o[(n + 1) \div 2], 1)
       ELSE Rat(o[n \div 2] + o[n \div 2 + 1], 2)
\* datos.max() - datos.min()
StatVpp(datos) ==
    IF datos = <<>> THEN RNaN ELSE Rat(SeqMax(datos) - SeqMin(datos), 1)

\* the dictionary built from datos
Estadisticos(datos) ==
    [isNone |-> FALSE,
     minimo |-> StatMin(datos),
     maximo |-> StatMax(datos),
     promedio |-> StatMean(datos),
     mediana |-> StatMedian(datos),
     vpp |-> StatVpp(datos)]

obtener_estadisticas(columna) ==
    IF df = None \/ columna \notin Range(df.columns) THEN None
    ELSE Estadisticos(DropNa(df, ColIndex(df, columna)))

(***************************************************************************)
(* The shell: OsciloscopioGUI                                              *)
(***************************************************************************)
\* crear_checkboxes_canales: one checked box per column after the first
crear_checkboxes_canales(t) ==
    [i \in 1 .. NumCols(t) - 1 |-> [col |-> t.columns[i + 1], var |-> TRUE]]

\* actualizar_info_archivo: file name (the paths here hold no '/'), number of
\* channels and of points
SinArchivo == [archivo |-> "No hay archivo cargado", canales |-> 0, puntos |-> 0]
actualizar_info_archivo(archivo, t) ==
    [archivo |-> archivo, canales |-> NumCols(t) - 1, puntos |-> NumRows(t)]

Seleccionados(cv) ==
    LET on == SelectSeq(cv, LAMBDA e : e.var) IN [i \in 1 .. Len(on) |-> on[i].col]

\* slip of the order: the axes cleared before the selection is looked at
actualizar_graficoClearFirst(t, cv) ==
    IF t = None THEN plot
    ELSE [df |-> t, canales |-> Seleccionados(cv)]

\* actualizar_grafico: the axes after the call
actualizar_grafico(t, cv) ==
    IF t = None THEN plot
    ELSE IF Seleccionados(cv) = <<>> THEN plot
    ELSE [df |-> t, canales |-> Seleccionados(cv)]

(***************************************************************************)
(* Observation of the last operation                                       *)
(***************************************************************************)
NoOp == [op |-> "none", path |-> "", err |-> NoErr, skiprows |-> -1,
         raw |-> None, parsed |-> None, req |-> <<>>, caller |-> <<>>, written |-> FALSE,
         columna |-> "", stats |-> None]

(***************************************************************************)
(* Actions                                                                 *)
(***************************************************************************)
OutPath == "out.csv"
MissingPath == "missing.csv"
InPaths == {"a.csv", "b.csv"}
Paths == InPaths \cup {OutPath, MissingPath}

\* abrir_archivo with the dialog returning archivo (non-empty)
AbrirArchivo(archivo) ==
    \E r \in {cargar_csv(archivo)} :
    /\ df' = r.df
    /\ archivo_actual' = r.archivo
    /\ IF r.err = NoErr
       THEN /\ gui_df' = r.ret
            /\ canal_vars' = crear_checkboxes_canales(r.ret)
            /\ btn_graficar' = "normal"
            /\ info_label' = actualizar_info_archivo(archivo, r.ret)
            /\ plot' = actualizar_grafico(r.ret, crear_checkboxes_canales(r.ret))
            /\ okPath' = archivo
       ELSE UNCHANGED <<gui_df, canal_vars, btn_graficar, plot, info_label, okPath>>
    /\ last' = [NoOp EXCEPT !.op = "load", !.path = archivo, !.err = r.err,
                            !.skiprows = r.skiprows, !.raw = r.raw,
                            !.parsed = r.parsed]
    /\ UNCHANGED <<fs, exported, nExport>>

\* abrir_archivo with the dialog cancelled (archivo empty)
CancelarDialogo ==
    /\ last' = [NoOp EXCEPT !.op = "cancel"]
    /\ UNCHANGED <<fs, df, archivo_actual, gui_df, canal_vars, btn_graficar, plot,
                   info_label, okPath, exported, nExport>>

\* the user clicks checkbox i: its BooleanVar flips, no command is bound
ToggleCanal(i) ==
    /\ i \in 1 .. Len(canal_vars)
    /\ canal_vars' = [canal_vars EXCEPT ![i].var = ~canal_vars[i].var]
    /\ last' = [NoOp EXCEPT !.op = "toggle"]
    /\ UNCHANGED <<fs, df, archivo_actual, gui_df, btn_graficar, plot,
                   info_label, okPath, exported, nExport>>

\* the refresh button, when enabled, calls actualizar_grafico
BotonActualizar ==
    /\ btn_graficar = "normal"
    /\ plot' = actualizar_grafico(gui_df, canal_vars)
    /\ last' = [NoOp EXCEPT !.op = "refresh"]
    /\ UNCHANGED <<fs, df, archivo_actual, gui_df, canal_vars, btn_graficar,
                   info_label, okPath, exported, nExport>>

\* the column lists a caller may request of the held table: every list of
\* up to MaxReq of its names without repetition, and the list of all of them
Requests ==
    IF df = None THEN {<<>>, <<"ch1">>}
    ELSE {q \in UNION {[1 .. n -> Range(df.columns)] : n \in 0 .. MaxReq} :
             \A i, j \in 1 .. Len(q) : q[i] = q[j] => i = j}
         \cup {df.columns}

Exportar(columnas) ==
    \E r \in {exportar_datos_filtrados(columnas)} :
    /\ r.written => nExport < MaxExports
    /\ fs' = IF r.written THEN [fs EXCEPT ![OutPath] = File(r.lines)] ELSE fs
    /\ nExport' = IF r.written THEN nExport + 1 ELSE nExport
    /\ exported' = IF r.written
                   THEN [isNone |-> FALSE, table |-> df,
                         columnas |-> ExportColumns(df, columnas)]
                   ELSE exported
    /\ last' = [NoOp EXCEPT !.op = "export", !.path = OutPath, !.err = r.err,
                            !.req = columnas, !.caller = r.caller,
                            !.written = r.written]
    /\ UNCHANGED <<df, archivo_actual, gui_df, canal_vars, btn_graficar, plot,
                   info_label, okPath>>

StatColumns == (IF df = None THEN {} ELSE Range(df.columns)) \cup {"t", "nope"}

Estadisticas(columna) ==
    /\ last' = [NoOp EXCEPT !.op = "stats", !.columna = columna,
                            !.stats = obtener_estadisticas(columna)]
    /\ UNCHANGED <<fs, df, archivo_actual, gui_df, canal_vars, btn_graficar, plot,
                   info_label, okPath, exported, nExport>>

\* detectar_lineas_encabezado called on a.csv alone
Detectar ==
    /\ last' = [NoOp EXCEPT !.op = "detect", !.path = "a.csv",
                            !.skiprows = detectar_lineas_encabezado(fs["a.csv"].lines)]
    /\ UNCHANGED <<fs, df, archivo_actual, gui_df, canal_vars, btn_graficar, plot,
                   info_label, okPath, exported, nExport>>

(***************************************************************************)
(* Files the behaviours start from                                         *)
(***************************************************************************)
\* hand-picked oscilloscope exports
FGood == << <<"Model", "DSO">>, <<"t", " ch1", "ch2 ">>,
            <<"0", "5", "x">>, <<"1", "6", "8">> >>
FKnown == << <<"t", "ch1">>, <<"0", "1">>, <<"1", "2">>, <<"2", "3">>,
             <<"3", "4">>, <<"4", "5">> >>
FOneCol == << <<"t">>, <<"1">>, <<"2">> >>
FNoRows == << <<"Model", "DSO">>, <<"t", "ch1">> >>
FOneColNoRows == << <<"Model">>, <<"t">> >>
FHeaderOnly == << <<"t", "ch1">> >>
FBad == << <<"t", "ch1">>, <<"x", "x">>, <<"1", "x">> >>
FHalf == << <<>>, <<"t", "ch1">>, <<"1", "">> >>
FNaNFirst == << <<"t", "ch1">>, <<"", "1.0">>, <<"2.0", "3.0">> >>
FNoHeader == << <<"1", "2">>, <<"3", "4">> >>
FEmpty == << >>

SysFiles == {FGood, FKnown, FOneCol, FNoRows, FOneColNoRows, FHeaderOnly, FBad, FHalf,
             FNaNFirst, FNoHeader, FEmpty}

\* generated tables: an optional preamble line, a header t, ch1, ... and rows
\* whose cell (r, c) is either the number 3(r - 1) + c or the non-parsable
\* text "x"
Preambles == {<<>>, << <<"Model", "DSO">> >>}
ColName(c) == IF c = 1 THEN "t" ELSE "ch" \o ToString(c - 1)
TableFile(pre, nc, nr, bad) ==
    pre \o << [c \in 1 .. nc |-> ColName(c)] >> \o
    [r \in 1 .. nr |->
       [c \in 1 .. nc |-> IF <<r, c>> \in bad THEN "x" ELSE IntText(3 * (r - 1) + c)]]
TableFiles ==
    {TableFile(x[1], x[2], x[3], x[4]) :
        x \in {y \in Preambles \X ColCounts \X (0 .. MaxRows)
                        \X SUBSET ((1 .. MaxRows) \X ColCounts) :
                  y[4] \subseteq (1 .. y[3]) \X (1 .. y[2])}}

\* files for the statistics: a time column 0, 1, ... and one channel whose
\* cells are drawn from StatCells, in any order
StatCells == {"1", "2", "5", "x"}
StatFile(cells) ==
    << <<"t", "ch1">> >> \o [r \in 1 .. Len(cells) |-> <<IntText(r - 1), cells[r]>>]
StatFiles == {StatFile(cells) : cells \in UNION {[1 .. n -> StatCells] : n \in 0 .. MaxVals}}

\* probed files: every sequence of up to MaxLines lines, each blank, with a
\* numeric leading field, or with a non-numeric (text or empty) leading field
ProbeLines == {<<>>, <<"7", "x">>, <<"x", "7">>, <<"", "7">>}
ProbeFiles == UNION {[1 .. n -> ProbeLines] : n \in 0 .. MaxLines}

(***************************************************************************)
(* Specifications                                                          *)
(***************************************************************************)
InitState(a, b) ==
    /\ fs = [p \in Paths |-> IF p = "a.csv" THEN a ELSE IF p = "b.csv" THEN b ELSE Absent]
    /\ df = None
    /\ archivo_actual = NonePath
    /\ gui_df = None
    /\ canal_vars = <<>>
    /\ btn_graficar = "disabled"
    /\ plot = None
    /\ info_label = SinArchivo
    /\ last = NoOp
    /\ okPath = NonePath
    /\ exported = None
    /\ nExport = 0

\* the application as wired: the shell's handlers over two hand-picked files
Init == \E a \in SysFiles, b \in SysFiles : InitState(File(a), File(b))

Next ==
    \/ \E p \in Paths : AbrirArchivo(p)
    \/ CancelarDialogo
    \/ \E i \in 1 .. Len(canal_vars) : ToggleCanal(i)
    \/ BotonActualizar

Spec == Init /\ [][Next]_vars

\* load and export over one generated or hand-picked file
InitTables == \E a \in TableFiles \cup SysFiles : InitState(File(a), Absent)

NextTables ==
    \/ \E p \in Paths \ {"b.csv"} : AbrirArchivo(p)
    \/ \E columnas \in Requests : Exportar(columnas)

SpecTables == InitTables /\ [][NextTables]_vars

\* load and statistics over one file with a time column and one channel
InitStats == \E a \in StatFiles \cup {FKnown} : InitState(File(a), Absent)

NextStats ==
    \/ \E p \in {"a.csv", MissingPath} : AbrirArchivo(p)
    \/ \E columna \in StatColumns : Estadisticas(columna)

SpecStats == InitStats /\ [][NextStats]_vars

\* detectar_lineas_encabezado alone over the probed files
InitDetect == \E a \in ProbeFiles : InitState(File(a), Absent)

NextDetect == Detectar

SpecDetect == InitDetect /\ [][NextDetect]_vars

(***************************************************************************)
(* Claims                                                                  *)
(***************************************************************************)
LoadFailed == last.op = "load" /\ last.err # NoErr

\* C1: a load that fails leaves the table held before the call untouched,
\* in the loader (df) and in the shell (gui_df).
C1_FailedLoadKeepsTables ==
    [][(last'.op = "load" /\ last'.err # NoErr) => (df' = df /\ gui_df' = gui_df)]_vars

\* C2: archivo_actual is the path of the most recent load that succeeded,
\* and unset while none has.
C2_ArchivoIsLastLoaded == archivo_actual = okPath

\* C3: while no load has succeeded, export fails with the state error and
\* writes nothing.
C3_ExportNeedsLoadedTable ==
    [][(last'.op = "export" /\ okPath = NonePath)
          => (last'.err = StateError /\ ~last'.written /\ fs' = fs)]_vars

\* C4: every failure of load reaches the caller as the wrapped error: the
\* load-error prefix followed by the underlying message.
C4_LoadErrorsAreWrapped ==
    LoadFailed => last.err.type = "Exception" /\ last.err.prefix = LoadPrefix

\* what the claims say of a parsed frame, counted on the text read
RawCells(raw) == (1 .. Len(raw.rows)) \X (1 .. Len(raw.columns))
RawMissing(raw) == {rc \in RawCells(raw) : raw.rows[rc[1]][rc[2]] \notin NumTexts}
RawInvalid(raw) ==
    \/ Len(raw.columns) < 2
    \/ Len(raw.rows) = 0
    \/ 2 * Cardinality(RawMissing(raw)) > Cardinality(RawCells(raw))
Parsed == last.op = "load" /\ last.parsed # None

\* the parts of C5 that do not depend on the reason reported
C5_Common ==
    /\ (last.err # NoErr) <=> RawInvalid(last.raw)
    /\ last.err # NoErr => last.err.prefix = LoadPrefix
    /\ \A rc \in RawCells(last.raw) :
          LET cell == last.parsed.rows[rc[1]][rc[2]]
              text == last.raw.rows[rc[1]][rc[2]]
          IN IF text \in NumTexts THEN cell = Num(NumVal[text]) ELSE cell = NaN
    /\ last.err = NoErr =>
          /\ df = last.parsed /\ gui_df = last.parsed
          /\ \A rc \in RawCells(last.raw) :
                df.rows[rc[1]][rc[2]].nan \/ df.rows[rc[1]][rc[2]].v \in NumRange

ProbeLen == Len(fs["a.csv"].lines)
ProbeLine(i) == fs["a.csv"].lines[i + 1]
NumericLeading(l) == l # <<>> /\ l[1] \in NumTexts
NumericAt == {i \in 0 .. ProbeLen - 1 : NumericLeading(ProbeLine(i))}
NonBlankAt == {i \in 0 .. ProbeLen - 1 : ProbeLine(i) # <<>>}
Least(S) == CHOOSE i \in S : \A j \in S : i <= j
FirstNonBlankIsNumeric == NonBlankAt # {} /\ Least(NonBlankAt) \in NumericAt
Detected == last.op = "detect"

\* C6 as claimed: when the first non-blank line has a numeric leading field
\* the offset is 0, whatever the number of blank lines before it.
C6_ZeroAsClaimed == (Detected /\ FirstNonBlankIsNumeric) => last.skiprows = 0

\* C6 amended: when the first non-blank line has a numeric leading field and
\* b blank lines precede it, the offset is 0 if b <= 1 and b - 1 otherwise.
C6_ZeroUpToOneBlank ==
    (Detected /\ FirstNonBlankIsNumeric) =>
        LET b == Least(NonBlankAt) IN
        /\ b <= 1 => last.skiprows = 0
        /\ b >= 2 => last.skiprows = b - 1

\* one blank line, then a numeric line: offset 0
C6_Witness ==
    /\ Detected /\ FirstNonBlankIsNumeric
    /\ Least(NonBlankAt) = 1 /\ last.skiprows = 0

\* C7: the offset is max(0, i - 1) for i the index of the first line with a
\* numeric leading field, 1 when there is none, and never negative.
C7_Offset ==
    Detected =>
        /\ last.skiprows >= 0
        /\ last.skiprows = IF NumericAt = {} THEN 1 ELSE Max(0, Least(NumericAt) - 1)

\* three preamble lines, data from line 3: offset 2
C7_Witness ==
    /\ Detected /\ NumericAt # {} /\ Least(NumericAt) = 3
    /\ NonBlankAt = 0 .. ProbeLen - 1
    /\ last.skiprows = 2

\* the same column names, row count and cell values in the same order
SameTable(a, b) == a.columns = b.columns /\ a.rows = b.rows

\* a table that a successful load returns: it passes the validation
ValidTable(t) ==
    /\ t # None /\ NumCols(t) >= 2 /\ NumRows(t) >= 1
    /\ 2 * NaNCount(t) <= NumRows(t) * NumCols(t)

\* the file just loaded is the export of all the columns of a valid table
ReloadedExportOfAll ==
    /\ last.op = "load" /\ last.path = OutPath
    /\ exported # None
    /\ ValidTable(exported.table)
    /\ exported.columnas = exported.table.columns

C9_ExportColumns ==
    (last.op = "export" /\ last.written) =>
        LET t == exported.table
            out == fs[OutPath].lines
            first == t.columns[1]
        IN /\ Len(out) = 1 + NumRows(t)
           /\ first \in Range(out[1])
           /\ Range(out[1]) = Range(last.req) \cup {first}
           /\ first \notin Range(last.req) => out[1] = <<first>> \o last.req
           /\ \A r \in 1 .. NumRows(t) :
                 /\ Len(out[r + 1]) = Len(out[1])
                 /\ \A k \in 1 .. Len(out[1]) :
                       ToNumeric(out[r + 1][k]) = t.rows[r][ColIndex(t, out[1][k])]
           /\ df = t
           /\ last.caller = last.req

\* two channels requested in reverse order, without the first column
C9_Witness ==
    /\ last.op = "export" /\ last.written
    /\ Len(last.req) = 2 /\ df.columns[1] \notin Range(last.req)
    /\ last.req = <<df.columns[3], df.columns[2]>>
    /\ NumRows(df) >= 2

\* rationals and NaN: equality and order (NaN compares false)
REq(x, y) == ~x.nan /\ ~y.nan /\ x.num * y.den = y.num * x.den
RLe(x, y) == ~x.nan /\ ~y.nan /\ x.num * y.den <= y.num * x.den

\* the non-missing values of the column asked for, by row
StatCol == ColIndex(df, last.columna)
StatRows == {r \in 1 .. NumRows(df) : ~df.rows[r][StatCol].nan}
StatVal(r) == df.rows[r][StatCol].v
StatVals == {StatVal(r) : r \in StatRows}
RECURSIVE SumOver(_)
SumOver(R) ==
    IF R = {} THEN 0 ELSE LET r == CHOOSE x \in R : TRUE IN StatVal(r) + SumOver(R \ {r})
\* the k-th smallest value
OrderStat(k) ==
    CHOOSE x \in StatVals :
        /\ Cardinality({r \in StatRows : StatVal(r) < x}) < k
        /\ Cardinality({r \in StatRows : StatVal(r) <= x}) >= k

StatsDone == last.op = "stats"
StatsAbsentIff ==
    (last.stats = None) <=> (df = None \/ last.columna \notin Range(df.columns))
\* the record is that of the non-missing values
StatsOfValues ==
    LET st == last.stats
        n == Cardinality(StatRows)
    IN /\ \E m \in StatVals : (\A v \in StatVals : m <= v) /\ REq(st.minimo, Rat(m, 1))
       /\ \E m \in StatVals : (\A v \in StatVals : m >= v) /\ REq(st.maximo, Rat(m, 1))
       /\ REq(st.promedio, Rat(SumOver(StatRows), n))
       /\ REq(st.mediana, Rat(OrderStat((n + 1) \div 2) + OrderStat(n \div 2 + 1), 2))
       /\ REq(st.vpp, Rat(st.maximo.num - st.minimo.num, 1))
StatsOrdered == RLe(last.stats.minimo, last.stats.mediana)
                /\ RLe(last.stats.mediana, last.stats.maximo)
StatsAllNaN ==
    \A f \in {"minimo", "maximo", "promedio", "mediana", "vpp"} : last.stats[f].nan
\* the values 1, 2, 3, 4, 5 give min 1, max 5, mean 3, median 3, peak-to-peak 4
StatsKnown ==
    [r \in 1 .. NumRows(df) |-> df.rows[r][StatCol]] = <<Num(1), Num(2), Num(3), Num(4), Num(5)>>
        => /\ last.stats.minimo = Rat(1, 1) /\ last.stats.maximo = Rat(5, 1)
           /\ REq(last.stats.promedio, Rat(3, 1)) /\ REq(last.stats.mediana, Rat(3, 1))
           /\ last.stats.vpp = Rat(4, 1)
StatsKeepsTable == [][last'.op = "stats" => df' = df]_vars

\* C10 as claimed: absent exactly when the table is unset or the column does
\* not exist; otherwise the record of the column's non-missing values, with
\* minimum <= median <= maximum; the held table is unchanged.
C10_StatisticsAsClaimed ==
    /\ [](StatsDone => /\ StatsAbsentIff
                       /\ last.stats # None =>
                             /\ StatRows # {} => StatsOfValues
                             /\ StatsOrdered
                             /\ StatsKnown)
    /\ StatsKeepsTable

\* C10 amended: as claimed for a column with at least one non-missing value;
\* for a column whose values are all missing every statistic is NaN, and
\* minimum <= median <= maximum does not hold.
C10_Statistics ==
    /\ [](StatsDone => /\ StatsAbsentIff
                       /\ last.stats # None =>
                             /\ StatRows # {} => (StatsOfValues /\ StatsOrdered)
                             /\ StatRows = {} => (StatsAllNaN /\ ~StatsOrdered)
                             /\ StatsKnown)
    /\ StatsKeepsTable

\* the statistics of the channel 1, 2, 3, 4, 5 were computed
C10_Witness ==
    /\ StatsDone /\ last.stats # None
    /\ [r \in 1 .. NumRows(df) |-> df.rows[r][StatCol]] = <<Num(1), Num(2), Num(3), Num(4), Num(5)>>
    /\ last.stats.mediana = Rat(3, 1)

(***************************************************************************)
(* The shell: selection and plot                                           *)
(***************************************************************************)
\* the channels the axes show, and the channels whose box is checked
Plotted == IF plot = None THEN {} ELSE Range(plot.canales)
Selected == Range(Seleccionados(canal_vars))

\* C11: once a table is loaded, after the user toggles a channel checkbox and
\* with no further user action, the set of plotted channels equals the set
\* of currently selected channels.
C11_ToggleRedraws ==
    (last.op = "toggle" /\ gui_df # None) => Plotted = Selected

\* the names of the shell's channel list, in order
Canales == [i \in 1 .. Len(canal_vars) |-> canal_vars[i].col]

\* the table the shell renders from is unset or passed the validation
ShellTableValid == gui_df = None \/ ValidTable(gui_df)

\* the channel list is the columns of that table after the first one
ShellChannels == Canales = IF gui_df = None THEN <<>> ELSE Tail(gui_df.columns)

\* the refresh button is enabled only if some load has succeeded
ButtonNeedsLoad == btn_graficar = "normal" => okPath # NonePath

\* a refresh with no table would leave the plot as it is
RefreshNoTable == actualizar_grafico(None, canal_vars) = plot

\* a refresh with no table or no channel selected leaves the plot as it is
RefreshKeepsPlot ==
    [][(last'.op = "refresh" /\ (gui_df = None \/ Selected = {})) => plot' = plot]_vars

\* C12: in every state reachable by the shell's actions the table the shell
\* renders from is unset or passed validation (at least 2 columns, at least
\* 1 row, at most 50% missing cells); the channel list is exactly the columns
\* of that table after the first one; the refresh button is enabled only if
\* some load has succeeded; and a refresh with no table or with no channel
\* selected leaves the current plot unchanged.
C12_ShellInvariants ==
    /\ [](ShellTableValid /\ ShellChannels /\ ButtonNeedsLoad /\ RefreshNoTable)
    /\ RefreshKeepsPlot

\* a refresh with every channel deselected, after a load that succeeded and a
\* later one that failed: the plot still shows what the first load drew
C12_Witness ==
    /\ last.op = "refresh"
    /\ gui_df # None /\ ValidTable(gui_df) /\ df # gui_df
    /\ Selected = {} /\ Plotted # {}
    /\ btn_graficar = "normal"

====
